---- MODULE Spec2Model ----
(***************************************************************************)
(* The wallpaper daemon: the State engine of src/src/state.rs (History,    *)
(* selection policy, fallback) driven by the ticker thread and by the      *)
(* connection handlers of src/src/daemon.rs.                               *)
(*                                                                         *)
(* One action is one whole critical section: a ticker cycle, or the        *)
(* handling of one connection (read, parse, lock, operate, respond).  The  *)
(* accept loop joins each handler before it accepts again, and every State *)
(* operation runs under the one mutex, so these units do not interleave.   *)
(*                                                                         *)
(* Environment: image paths are opaque strings, given without a leading    *)
(* ~/; a directory is named by its path and has a fixed listing; whether   *)
(* `sh` can be launched, and how it exits, is the environment's (sh).      *)
(***************************************************************************)
EXTENDS Integers, Sequences, FiniteSets, TLC

\* ------------------------------------------------------------------ bounds

\* Largest configured history_length (history_max_size ranges over 0..MaxCap).
MaxCap == 2

\* Largest depth of the redo stack History.next the model explores.
MaxNext == 1

\* --------------------------------------------------------------- the world

\* The default (fallback) image, outside the image directories.
DefaultImage == "d"

\* The directories a client can name: two readable ones and one that
\* fs::read_dir cannot open.
Dirs == {"A", "B", "X"}

Readable(dir) == dir # "X"

\* fs::read_dir(dir) in the order the filesystem returns it.
Listing(dir) ==
    CASE dir = "A" -> <<"a", "b", "c">>
      [] dir = "B" -> <<"b", "a">>
      [] OTHER -> <<>>

\* The paths a client passes to `mode static <path>`.
StaticPaths == {"b"}

\* The change intervals (seconds) a client or the command line sets.
Intervals == {30, 60}

Modes == {"Random", "Linear", "Static"}

\* ----------------------------------------------------------------- History

has_next(s) == s.next # <<>>

\* Mutant of has_previous: off by one, a one-entry history counts as having a
\* previous image.
has_previous_off_by_one(s) == Len(s.previous) >= 1

has_previous(s) == Len(s.previous) >= 2

\* VecDeque::pop_front: removes the front, nothing on an empty deque.
pop_front(q) == IF q = <<>> THEN q ELSE Tail(q)

\* VecDeque::pop_back / Vec::pop: removes the back, nothing when empty.
pop_back(q) == IF q = <<>> THEN q ELSE SubSeq(q, 1, Len(q) - 1)

back(q) == q[Len(q)]

\* Mutant of push_back: the eviction is forgotten.
push_back_no_eviction(s, path) == [s EXCEPT !.previous = Append(s.previous, path)]

\* Mutant of push_back: an append forgets the redo entries.
push_back_clears_redo(s, path) ==
    LET kept == IF Len(s.previous) >= s.history_max_size
                THEN pop_front(s.previous)
                ELSE s.previous
    IN [s EXCEPT !.previous = Append(kept, path), !.next = <<>>]

push_back(s, path) ==
    LET kept == IF Len(s.previous) >= s.history_max_size
                THEN pop_front(s.previous)
                ELSE s.previous
    IN [s EXCEPT !.previous = Append(kept, path)]

\* Mutant of go_next: the redone image is read but left on the redo stack.
go_next_keeps_redo(s) ==
    IF s.next # <<>> THEN [s EXCEPT !.previous = Append(s.previous, back(s.next))] ELSE s

go_next(s) ==
    IF has_next(s)
    THEN push_back([s EXCEPT !.next = pop_back(s.next)], back(s.next))
    ELSE s

go_previous(s) ==
    IF has_previous(s)
    THEN [s EXCEPT !.next = Append(s.next, back(s.previous)),
                   !.previous = pop_back(s.previous)]
    ELSE s

contains(s, path) == \E i \in 1..Len(s.previous) : s.previous[i] = path

\* ------------------------------------------------------------------- State

\* State::new: the history is seeded with the default image.
new(change_interval, image_dir, action, history_max_size) ==
    [previous         |-> <<DefaultImage>>,
     next             |-> <<>>,
     history_max_size |-> history_max_size,
     action           |-> action,
     previous_action  |-> action,
     change_interval  |-> change_interval,
     image_dir        |-> image_dir,
     use_fallback     |-> FALSE,
     post_cmd         |-> FALSE,
     post_offset      |-> -1]

\* What an operation on State comes to: the State it leaves, how it ended
\* ("ok", "panic": an unwrap failed and the thread unwinds, "hang": it never
\* returns) and the commands it handed to `sh`.
Outcome(s, status, setter) == [st |-> s, status |-> status, setter |-> setter]

get_current_image(s) == back(s.previous)

\* Mutant of PostCalls: the count starts at the image before the current one.
PostCalls_skips_current(s) ==
    IF s.post_offset >= 0 /\ s.post_cmd /\ s.post_offset + 1 < Len(s.previous)
    THEN <<[cmd |-> "post", image |-> s.previous[Len(s.previous) - 1 - s.post_offset]]>>
    ELSE <<>>

\* The post-change command's image: previous.iter().rev().nth(offset).
PostCalls(s) ==
    IF s.post_offset >= 0 /\ s.post_cmd /\ s.post_offset < Len(s.previous)
    THEN <<[cmd |-> "post", image |-> s.previous[Len(s.previous) - s.post_offset]]>>
    ELSE <<>>

\* State::update: back().unwrap() panics on an empty history; otherwise the
\* change command runs with the current image, then the post-change command.
update(s) ==
    IF s.previous = <<>>
    THEN Outcome(s, "panic", <<>>)
    ELSE Outcome(s, "ok",
                 <<[cmd |-> "change", image |-> get_current_image(s)]>> \o PostCalls(s))

\* Mutant of position: the index is counted from 1.
position_from_one(listing, path) ==
    IF \E i \in 1..Len(listing) : listing[i] = path
    THEN CHOOSE i \in 1..Len(listing) : listing[i] = path
    ELSE 0

\* How a launch of `sh -c <command>` can fare: it runs and exits with 0, it
\* runs and exits with another status, or it cannot be spawned.
ShOutcomes == {"exit0", "nonzero", "nolaunch"}

\* Command::new("sh")...output().unwrap() inside an operation whose outcome,
\* with a shell that runs, is o: the exit status is not looked at; when the
\* shell cannot be spawned output() is an Err and the unwrap panics, after
\* the operation has changed State.
launch(o, fares) ==
    IF o.status = "ok" /\ o.setter # <<>> /\ fares = "nolaunch"
    THEN Outcome(o.st, "panic", <<>>)
    ELSE o

\* Index of the first listing entry equal to path, counted from 0;
\* unwrap_or(0) when there is none.
position(listing, path) ==
    IF \E i \in 1..Len(listing) : listing[i] = path
    THEN (CHOOSE i \in 1..Len(listing) :
              listing[i] = path /\ \A j \in 1..(i - 1) : listing[j] # path) - 1
    ELSE 0

\* Mutant of accepted: the first draw is taken, in the history or not.
accepted_any(s, path, num_pics) == TRUE

\* The test that ends the pick loop.
accepted(s, path, num_pics) ==
    ~contains(s, path) \/ num_pics <= s.history_max_size

\* The fresh pick of change_image (the loop of lines 172-200): the set of
\* ways it can end.  A Random draw that is rejected is drawn again, so the
\* loop ends with any acceptable entry, and never ends when there is none;
\* the Linear index is the same on every iteration.
fresh_pick(s) ==
    LET listing  == Listing(s.image_dir)
        num_pics == Len(listing)
        idx      == (position(listing, get_current_image(s)) + 1) % num_pics
    IN IF ~Readable(s.image_dir) \/ num_pics = 0
       THEN {Outcome(s, "panic", <<>>)}
       ELSE IF s.action = "Random"
       THEN IF \E i \in 1..num_pics : accepted(s, listing[i], num_pics)
            THEN {update(push_back(s, listing[i])) :
                     i \in {j \in 1..num_pics : accepted(s, listing[j], num_pics)}}
            ELSE {Outcome(s, "hang", <<>>)}
       ELSE IF accepted(s, listing[idx + 1], num_pics)
            THEN {update(push_back(s, listing[idx + 1]))}
            ELSE {Outcome(s, "hang", <<>>)}

\* Mutant of change_image: the Static check is missing.
change_image_ignores_static(s, direction) ==
    IF s.use_fallback
    THEN {Outcome(s, "ok", <<>>)}
    ELSE IF direction = "Next"
    THEN IF has_next(s) THEN {update(go_next(s))} ELSE fresh_pick(s)
    ELSE IF has_previous(s) THEN {update(go_previous(s))} ELSE {update(s)}

\* Mutant of change_image: the fallback check is missing.
change_image_ignores_fallback(s, direction) ==
    IF s.action = "Static"
    THEN {Outcome(s, "ok", <<>>)}
    ELSE IF direction = "Next"
    THEN IF has_next(s) THEN {update(go_next(s))} ELSE fresh_pick(s)
    ELSE IF has_previous(s) THEN {update(go_previous(s))} ELSE {update(s)}

\* Mutant of change_image: a Next never redoes, it always picks afresh.
change_image_always_picks(s, direction) ==
    IF s.use_fallback
    THEN {Outcome(s, "ok", <<>>)}
    ELSE IF s.action = "Static"
    THEN {Outcome(s, "ok", <<>>)}
    ELSE IF direction = "Next"
    THEN fresh_pick(s)
    ELSE IF has_previous(s) THEN {update(go_previous(s))} ELSE {update(s)}

\* State::change_image: the set of ways the call can end.
change_image(s, direction) ==
    IF s.use_fallback
    THEN {Outcome(s, "ok", <<>>)}
    ELSE IF s.action = "Static"
    THEN {Outcome(s, "ok", <<>>)}
    ELSE IF direction = "Next"
    THEN IF has_next(s) THEN {update(go_next(s))} ELSE fresh_pick(s)
    ELSE IF has_previous(s) THEN {update(go_previous(s))} ELSE {update(s)}

\* image is a path, or "" for None.
update_action(s, action, image) ==
    IF image # ""
    THEN update(push_back([s EXCEPT !.action = action], image))
    ELSE Outcome([s EXCEPT !.action = action], "ok", <<>>)

save(s) ==
    IF ~s.use_fallback
    THEN update(push_back([s EXCEPT !.use_fallback = TRUE,
                                    !.previous_action = s.action,
                                    !.action = "Static"],
                          DefaultImage))
    ELSE update([s EXCEPT !.use_fallback = FALSE,
                          !.action = s.previous_action,
                          !.previous = pop_back(s.previous)])

change_interval(s, i) == [s EXCEPT !.change_interval = i]

get_change_interval(s) == s.change_interval

get_action(s) == s.action

get_fallback(s) == s.use_fallback

set_image_dir(s, path) == [s EXCEPT !.image_dir = path]

get_image_dir(s) == s.image_dir

\* ---------------------------------------------------------------- protocol

\* The request bodies clients send, as the tokens of line.split(' ').
Lines ==
    {<<"next">>, <<"previous">>, <<"stop">>, <<"fallback">>, <<"daemon">>,
     <<"mode", "linear">>, <<"mode", "random">>, <<"mode", "static">>}
    \cup {<<"mode", "static", p>> : p \in StaticPaths}
    \cup {<<"interval", ToString(n)>> : n \in Intervals}
    \cup {<<"wp-dir", d>> : d \in Dirs}
    \cup {<<"get", w>> : w \in {"wallpaper", "duration", "mode", "fallback", "wp-dir"}}
    \cup {<<"frobnicate">>, <<"get">>, <<"interval", "abc">>}

\* What arrives on a connection: a well-formed frame carrying a line, a frame
\* shorter than its length prefix announces, or a body that is not UTF-8.
Frames ==
    {[frame |-> "full", line |-> l] : l \in Lines}
    \cup {[frame |-> "short", line |-> <<>>], [frame |-> "badutf8", line |-> <<>>]}

\* The frames whose command changes State.
OperationFrames ==
    {[frame |-> "full", line |-> l] : l \in
        {<<"next">>, <<"previous">>, <<"fallback">>,
         <<"mode", "linear">>, <<"mode", "random">>, <<"mode", "static">>}
        \cup {<<"mode", "static", p>> : p \in StaticPaths}
        \cup {<<"interval", ToString(n)>> : n \in Intervals}
        \cup {<<"wp-dir", d>> : d \in Dirs}}

\* ---- the bytes on the wire

\* The byte orders a host can have; client and daemon share the host.
Orders == {"little", "big"}

Reverse(q) == [i \in 1..Len(q) |-> q[Len(q) + 1 - i]]

\* usize::to_ne_bytes on a 64-bit host, for lengths below 2^16.
to_ne_bytes(n, order) ==
    LET le == <<n % 256, (n \div 256) % 256, 0, 0, 0, 0, 0, 0>>
    IN IF order = "little" THEN le ELSE Reverse(le)

\* Mutant of from_ne_bytes: the prefix is read as big-endian on every host.
from_be_bytes(buf, order) == buf[8] + 256 * buf[7] + 65536 * buf[6]

\* usize::from_ne_bytes, for values below 2^24 (buf's five high bytes are 0).
from_ne_bytes(buf, order) ==
    LET le == IF order = "little" THEN buf ELSE Reverse(buf)
    IN le[1] + 256 * le[2] + 65536 * le[3]

\* A byte that starts no UTF-8 sequence.
BadByte == "\\xff"

\* The request bodies on the wire, one one-character string per byte.
Bodies ==
    {<<"g", "e", "t", " ", "w", "a", "l", "l", "p", "a", "p", "e", "r">>,
     <<"g", "e", "t", " ", "m", "o", "d", "e">>,
     <<"n", "e", "x", "t">>,
     <<"n", "e", "x", "t", BadByte>>}

\* The lengths a prefix announces.
Prefixes == {4, 5, 8, 13, 14}

\* What arrives on a connection, byte for byte.
WireFrames ==
    {[frame |-> "bytes", order |-> o, prefix |-> to_ne_bytes(n, o), body |-> b] :
        o \in Orders, n \in Prefixes, b \in Bodies}

\* str::split(' ') over the bytes of a string: the tokens between the
\* spaces, empty ones included.
RECURSIVE split(_)
split(bytes) ==
    IF bytes = <<>> THEN <<"">>
    ELSE LET rest == split(Tail(bytes))
         IN IF Head(bytes) = " "
            THEN <<"">> \o rest
            ELSE <<Head(bytes) \o Head(rest)>> \o Tail(rest)

\* read_from_stream: the body's tokens; a failed read_exact gives the empty
\* string, whose split is one empty token; from_utf8(..).unwrap() panics.
\* For a frame given by its bytes: the prefix is decoded, that many bytes of
\* the body are read (read_exact fails when fewer arrive) and checked to be
\* UTF-8.
read_from_stream(f) ==
    CASE f.frame = "full" -> [panic |-> FALSE, line |-> f.line]
      [] f.frame = "short" -> [panic |-> FALSE, line |-> <<"">>]
      [] f.frame = "bytes" ->
             LET len    == from_ne_bytes(f.prefix, f.order)
                 buffer == SubSeq(f.body, 1, len)
             IN IF Len(f.body) < len
                THEN [panic |-> FALSE, line |-> <<"">>]
                ELSE IF \E i \in 1..len : buffer[i] = BadByte
                THEN [panic |-> TRUE, line |-> <<>>]
                ELSE [panic |-> FALSE, line |-> split(buffer)]
      [] OTHER -> [panic |-> TRUE, line |-> <<>>]

\* parse_duration: the u64 whose decimal text is tok, if there is one.
parse_duration(tok) ==
    IF \E n \in Intervals : ToString(n) = tok
    THEN [ok |-> TRUE, secs |-> CHOOSE n \in Intervals : ToString(n) = tok]
    ELSE [ok |-> FALSE, secs |-> 0]

\* ClientMessage::parse_from over the Command grammar of command.rs; "Error"
\* is a clap error, on which parse_from prints it and exits the process.
parse_from(line) ==
    CASE line = <<"next">> -> [cmd |-> "Next"]
      [] line = <<"previous">> -> [cmd |-> "Previous"]
      [] line = <<"stop">> -> [cmd |-> "Stop"]
      [] line = <<"fallback">> -> [cmd |-> "Fallback"]
      [] line = <<"daemon">> -> [cmd |-> "Daemon"]
      [] line = <<"mode", "linear">> -> [cmd |-> "Mode", action |-> "Linear", image |-> ""]
      [] line = <<"mode", "random">> -> [cmd |-> "Mode", action |-> "Random", image |-> ""]
      [] line = <<"mode", "static">> -> [cmd |-> "Mode", action |-> "Static", image |-> ""]
      [] Len(line) = 3 /\ SubSeq(line, 1, 2) = <<"mode", "static">> ->
             [cmd |-> "Mode", action |-> "Static", image |-> line[3]]
      [] Len(line) = 2 /\ line[1] = "interval" /\ parse_duration(line[2]).ok ->
             [cmd |-> "Interval", duration |-> parse_duration(line[2]).secs]
      [] Len(line) = 2 /\ line[1] = "wp-dir" -> [cmd |-> "WpDir", path |-> line[2]]
      [] Len(line) = 2 /\ line[1] = "get"
             /\ line[2] \in {"wallpaper", "duration", "mode", "fallback", "wp-dir"} ->
             [cmd |-> "Get", what |-> line[2]]
      [] OTHER -> [cmd |-> "Error"]

NoResponse == [written |-> FALSE, text |-> ""]

Written(text) == [written |-> TRUE, text |-> text]

\* The text a Get command answers with.
get_response(s, what) ==
    CASE what = "wallpaper" -> get_current_image(s)
      [] what = "duration" -> ToString(get_change_interval(s))
      [] what = "mode" -> get_action(s)
      [] what = "fallback" -> IF get_fallback(s) THEN "true" ELSE "false"
      [] OTHER -> get_image_dir(s)

\* The State operation a command runs under the lock: the set of its
\* outcomes, each with the response text.
dispatch(s, c) ==
    CASE c.cmd = "Next" ->
             {[out |-> o, text |-> ""] : o \in change_image(s, "Next")}
      [] c.cmd = "Previous" ->
             {[out |-> o, text |-> ""] : o \in change_image(s, "Previous")}
      [] c.cmd = "Mode" ->
             {[out |-> update_action(s, c.action, c.image), text |-> ""]}
      [] c.cmd = "Fallback" -> {[out |-> save(s), text |-> ""]}
      [] c.cmd = "Interval" ->
             {[out |-> Outcome(change_interval(s, c.duration), "ok", <<>>), text |-> ""]}
      [] c.cmd = "WpDir" ->
             {[out |-> Outcome(set_image_dir(s, c.path), "ok", <<>>), text |-> ""]}
      [] OTHER ->
             {[out |-> Outcome(s, "ok", <<>>), text |-> get_response(s, c.what)]}

\* ------------------------------------------------------------------ daemon

VARIABLES
    state,       \* the State behind the mutex
    poisoned,    \* a thread panicked while holding the mutex
    lock,        \* "free", or the thread that holds the mutex for ever
    ticker,      \* the change_interval thread: "sleep" or "dead"
    time,        \* the ticker's local: the interval it sleeps next
    daemon,      \* "running", "blocked" (join never returns), "stopped", "exited"
    request,     \* the request last handled (Tick for a ticker cycle)
    response,    \* what the last handler wrote before its connection closed
    setter_log,  \* the commands the last operation handed to sh
    client,      \* a client that sends a fixed script of commands, and what it saw
    handler,     \* the connection handler thread: where it is, and its locals
    backlog,     \* connections made and not yet accepted
    section,     \* per thread, the State it found when it took the mutex
    sh           \* how the next launch of sh fares

vars == <<state, poisoned, lock, ticker, time, daemon, request, response, setter_log,
          client, handler, backlog, section, sh>>

\* What only the thread-by-thread specification moves.
threads == <<handler, backlog, section>>

Tick == [frame |-> "tick", line |-> <<>>]

Boot == [frame |-> "boot", line |-> <<>>]

\* start_daemon up to the accept loop, for every configuration (interval,
\* wallpaper directory, mode, history_length); the ticker has read the
\* interval for its first sleep.
Start ==
    /\ \E i \in Intervals, dir \in Dirs, a \in Modes, n \in 0..MaxCap :
           state = new(i, dir, a, n)
    /\ poisoned = FALSE
    /\ lock = "free"
    /\ ticker = "sleep"
    /\ time = get_change_interval(state)
    /\ daemon = "running"
    /\ request = Boot
    /\ response = NoResponse
    /\ setter_log = <<>>

\* No scripted client: clients send what they like.
NoClient == [script |-> <<>>, sent |-> 0, seen |-> <<>>, ticked |-> FALSE, from |-> ""]

\* No handler thread has been spawned.
NoHandler == [at |-> "none", frame |-> Boot, cmd |-> [cmd |-> "none"],
              text |-> "", stop |-> FALSE]

NoSection == [t \in {"ticker", "handler"} |-> <<>>]

\* Handlers are not followed step by step: one action is one whole handler.
Whole == handler = NoHandler /\ backlog = 0 /\ section = NoSection

\* The shell can be launched and the setter succeeds.
Launches == sh = "exit0"

Init == Start /\ client = NoClient /\ Whole /\ Launches

\* The redo stack is explored up to MaxNext entries.
WithinBounds(s) == Len(s.next) <= MaxNext

\* change_interval: one cycle of the ticker's loop after its sleep.
TickerCycle ==
    /\ daemon = "running"
    /\ ticker = "sleep"
    /\ lock = "free"
    /\ request' = Tick
    /\ response' = NoResponse
    /\ UNCHANGED daemon
    /\ IF poisoned
       THEN /\ ticker' = "dead"
            /\ setter_log' = <<>>
            /\ UNCHANGED <<state, poisoned, lock, time>>
       ELSE \E o \in {launch(x, sh) : x \in change_image(state, "Next")} :
              /\ WithinBounds(o.st)
              /\ state' = o.st
              /\ setter_log' = o.setter
              /\ poisoned' = (o.status = "panic")
              /\ lock' = IF o.status = "hang" THEN "ticker" ELSE "free"
              /\ ticker' = IF o.status = "panic" THEN "dead" ELSE "sleep"
              /\ time' = IF o.status = "ok" THEN get_change_interval(o.st) ELSE time

\* The accept loop takes a connection carrying frame f, runs
\* handle_connection on it and joins the handler.
Handle(f) ==
    /\ daemon = "running"
    /\   LET r == read_from_stream(f)
             c == parse_from(r.line)
         IN /\ request' = f
            /\ UNCHANGED <<ticker, time>>
            /\ IF r.panic \/ c.cmd = "Daemon"
               THEN \* the handler panics before it takes the lock
                    /\ response' = NoResponse
                    /\ setter_log' = <<>>
                    /\ UNCHANGED <<state, poisoned, lock, daemon>>
               ELSE IF c.cmd = "Error"
               THEN \* clap's Error::exit ends the process
                    /\ daemon' = "exited"
                    /\ response' = NoResponse
                    /\ setter_log' = <<>>
                    /\ UNCHANGED <<state, poisoned, lock>>
               ELSE IF c.cmd = "Stop"
               THEN /\ daemon' = "stopped"
                    /\ response' = Written("")
                    /\ setter_log' = <<>>
                    /\ UNCHANGED <<state, poisoned, lock>>
               ELSE IF poisoned
               THEN \* lock().unwrap() panics on the poisoned mutex
                    /\ response' = NoResponse
                    /\ setter_log' = <<>>
                    /\ UNCHANGED <<state, poisoned, lock, daemon>>
               ELSE IF lock # "free"
               THEN \* lock() never returns, nor does the join
                    /\ daemon' = "blocked"
                    /\ response' = NoResponse
                    /\ setter_log' = <<>>
                    /\ UNCHANGED <<state, poisoned, lock>>
               ELSE \E d \in {[out |-> launch(x.out, sh), text |-> x.text] :
                                  x \in dispatch(state, c)} :
                      /\ WithinBounds(d.out.st)
                      /\ state' = d.out.st
                      /\ setter_log' = d.out.setter
                      /\ poisoned' = (d.out.status = "panic")
                      /\ lock' = IF d.out.status = "hang" THEN "handler" ELSE "free"
                      /\ daemon' = IF d.out.status = "hang" THEN "blocked" ELSE "running"
                      /\ response' = IF d.out.status = "ok"
                                     THEN Written(d.text) ELSE NoResponse

\* A client sends one of the commands that operate on State.
HandleOperation == \E f \in OperationFrames : Handle(f)

\* A client sends anything.
HandleConnection == \E f \in Frames : Handle(f)

\* The daemon with clients that send only well-formed commands operating on
\* State (no queries, no stop, nothing malformed).
Next ==
    \/ TickerCycle /\ UNCHANGED <<client, threads, sh>>
    \/ HandleOperation /\ UNCHANGED <<client, threads, sh>>

Spec == Init /\ [][Next]_vars

\* The daemon with clients that send any frame.
NextDaemon ==
    \/ TickerCycle /\ UNCHANGED <<client, threads, sh>>
    \/ HandleConnection /\ UNCHANGED <<client, threads, sh>>

SpecDaemon == Init /\ [][NextDaemon]_vars

\* ------------------------------------------------------------ vocabulary

Cmd(l) == [frame |-> "full", line |-> l]

\* The operation of this step is taken under the lock: the mutex is neither
\* poisoned nor held for ever, and the accept loop is running.
Runs == ~poisoned /\ lock = "free" /\ daemon = "running"

\* This step is a changeImage(Next), by the ticker or by a client.
NextCall == request' \in {Tick, Cmd(<<"next">>)}

\* This step is a changeImage(Previous).
PreviousCall == request' = Cmd(<<"previous">>)

\* This step returned normally and released the lock.
Returned == ~poisoned' /\ lock' = "free"

SameHistory == state'.previous = state.previous /\ state'.next = state.next

\* The capacity the history is held to: one entry is always kept.
Capacity(s) == IF s.history_max_size = 0 THEN 1 ELSE s.history_max_size

\* ------------------------------------------------------------------ claims

\* C1: in every reachable state History.previous is non-empty, so
\* get_current_image never fails.  (Stated as claimed; violated: with a
\* history_length of 0 or 1, entering and leaving fallback pops the only
\* entry and update() panics on back().unwrap().)
C1_PreviousNeverEmpty == state.previous # <<>>

C3_PreviousThenNext ==
    /\ [][(PreviousCall /\ Runs /\ state.action # "Static" /\ ~state.use_fallback
             /\ has_previous(state))
          => \A o \in change_image(state', "Next") :
                 /\ o.status = "ok"
                 /\ o.st.previous = state.previous
                 /\ o.st.next = state.next
                 /\ get_current_image(o.st) = get_current_image(state)]_vars
    /\ []((~poisoned /\ state.action # "Static" /\ ~state.use_fallback
             /\ has_previous(state))
          => \A back1 \in change_image(state, "Previous") :
               \A again \in change_image(back1.st, "Next") :
                 /\ back1.status = "ok" /\ again.status = "ok"
                 /\ back1.st.previous # state.previous
                 /\ again.st.previous = state.previous
                 /\ again.st.next = state.next)

\* C3 witness: a Previous that stepped back from a full history.
C3_Witness ==
    /\ request = Cmd(<<"previous">>)
    /\ setter_log # <<>>
    /\ state.next # <<>>
    /\ state.history_max_size = 2
    /\ Len(state.previous) = 1

\* C4: wherever an operation can run on State, has_previous is false exactly
\* when previous holds one entry, and a Previous called then leaves previous,
\* next, the mode and the fallback flag as they were.
C4_NoPreviousIsNoOp ==
    /\ [](~poisoned => (~has_previous(state) <=> Len(state.previous) = 1))
    /\ [][(PreviousCall /\ Runs /\ ~has_previous(state))
          => /\ SameHistory
             /\ state'.action = state.action
             /\ state'.use_fallback = state.use_fallback]_vars

\* C4 witness: a Previous ran (the setter was invoked) on a one-entry history
\* with nothing to redo.
C4_Witness ==
    /\ request = Cmd(<<"previous">>)
    /\ setter_log # <<>>
    /\ Len(state.previous) = 1
    /\ state.next = <<>>

\* C5: from a state with fallback off, toggling fallback on and at once off
\* again gives back the mode and the current image, with fallback off.
\* (Stated as claimed; violated with history_length 0 or 1, as C1.)
C5_FallbackRoundTrip ==
    [][(request' = Cmd(<<"fallback">>) /\ Runs /\ ~state.use_fallback)
       => LET off == save(state')
          IN /\ off.status = "ok"
             /\ ~off.st.use_fallback
             /\ off.st.action = state.action
             /\ off.st.previous # <<>>
             /\ get_current_image(off.st) = get_current_image(state)]_vars

\* C6: while the mode is Static, a Next or Previous, from the ticker or a
\* client, leaves the history (so the current image) unchanged; and
\* `mode static <path>` appends path once, which makes it the current image.
C6_StaticFreezes ==
    [][/\ ((NextCall \/ PreviousCall) /\ state.action = "Static") => SameHistory
       /\ \A p \in StaticPaths :
            (request' = Cmd(<<"mode", "static", p>>) /\ Runs)
            => /\ state'.action = "Static"
               /\ get_current_image(state') = p
               /\ state'.previous = push_back(state, p).previous
               /\ state'.next = state.next
               /\ setter_log' = <<[cmd |-> "change", image |-> p]>>]_vars

\* C6 witness: a client's Next left the explicitly set image in Static mode.
C6_Witness ==
    /\ request = Cmd(<<"next">>)
    /\ state.action = "Static"
    /\ ~state.use_fallback
    /\ Len(state.previous) = 2
    /\ get_current_image(state) = "b"

\* C7: while fallback is on, a Next or Previous, from the ticker or a client
\* and whatever the mode, leaves previous and next (so the current image)
\* unchanged and hands nothing to the setter.
C7_FallbackFreezes ==
    [][((NextCall \/ PreviousCall) /\ state.use_fallback)
       => SameHistory /\ setter_log' = <<>>]_vars

\* C7 witness: a ticker cycle ran during fallback after a client had set the
\* mode to Linear.
C7_Witness ==
    /\ request = Tick
    /\ state.use_fallback
    /\ state.action = "Linear"
    /\ ~poisoned
    /\ Len(state.previous) = 2

\* C8: in Random mode, with more directory entries than the capacity, every
\* fresh pick of a Next appends an image that was not in previous.
C8_RandomNoRepeat ==
    [][(NextCall /\ Runs /\ Returned
          /\ state.action = "Random" /\ ~state.use_fallback /\ ~has_next(state)
          /\ Len(Listing(state.image_dir)) > state.history_max_size)
       => /\ ~contains(state, get_current_image(state'))
          /\ state'.previous = push_back(state, get_current_image(state')).previous
          /\ \E i \in 1..Len(Listing(state.image_dir)) :
                 Listing(state.image_dir)[i] = get_current_image(state')]_vars

\* C8 witness: a Random pick into a full history of two directory images.
C8_Witness ==
    /\ request = Cmd(<<"next">>)
    /\ state.action = "Random"
    /\ state.image_dir = "A"
    /\ state.history_max_size = 2
    /\ state.next = <<>>
    /\ state.previous = <<"a", "c">>
    /\ setter_log = <<[cmd |-> "change", image |-> "c"]>>

\* The frames that carry no command of the grammar, or no decodable body.
Malformed ==
    {f \in Frames : f.frame # "full" \/ parse_from(f.line).cmd = "Error"}

\* C9: on unrecognized or undecodable input the handler ends normally and the
\* daemon keeps accepting, with State unchanged.  (Stated as claimed;
\* violated: parse_from exits the process on a parse error.)
C9_MalformedIsRecovered ==
    [][(request' \in Malformed /\ daemon = "running")
       => daemon' = "running" /\ state' = state]_vars

\* C10: when the fresh pick of a Next fails on an unreadable directory, State
\* is left as it was, the lock stays usable and the ticker keeps cycling.
\* (Stated as claimed; violated: read_dir(..).unwrap() panics under the lock
\* and poisons the mutex.)
C10_FailedPickOnlyAborts ==
    [][(NextCall /\ Runs /\ state.action # "Static" /\ ~state.use_fallback
          /\ ~has_next(state) /\ ~Readable(state.image_dir))
       => state' = state /\ ~poisoned' /\ lock' = "free" /\ ticker' = "sleep"]_vars

\* ----------------------------------------------------- a scripted client

\* The command lines of the scripted sessions: set the interval and query
\* it; the walk Next, Next, Previous, Next; and a step back followed by a
\* change to a directory that cannot be read and a Next.
Scripts ==
    {<<<<"interval", ToString(n)>>, <<"get", "duration">>>> : n \in Intervals}
    \cup {<<<<"next">>, <<"next">>, <<"previous">>, <<"next">>>>,
          <<<<"next">>, <<"previous">>, <<"wp-dir", "X">>, <<"next">>>>}

\* The daemon starts as in Start; the client has chosen its script and has
\* sent nothing yet.
InitSession ==
    /\ Start
    /\ \E sc \in Scripts : client = [NoClient EXCEPT !.script = sc]
    /\ Whole
    /\ Launches

\* The client opens its next connection (main.rs: one connection per
\* command), sends the next line of its script and reads the response to
\* the end; it notes the image that was current before its first command.
SessionStep ==
    /\ client.sent < Len(client.script)
    /\ Handle(Cmd(client.script[client.sent + 1]))
    /\ client' = [client EXCEPT
                     !.sent = @ + 1,
                     !.seen = Append(@, [response |-> response', setter |-> setter_log']),
                     !.from = IF client.sent = 0 THEN get_current_image(state) ELSE @]
    /\ UNCHANGED <<threads, sh>>

\* A ticker cycle, before, between or after the client's connections.
SessionTick ==
    /\ TickerCycle
    /\ client' = [client EXCEPT !.ticked = @ \/ client.sent > 0]
    /\ UNCHANGED <<threads, sh>>

NextSession == SessionTick \/ SessionStep

SpecSession == InitSession /\ [][NextSession]_vars

\* The client has sent `interval n` and the daemon answered it; then it has
\* sent `get duration`.
AskedAfterSet(n) ==
    /\ client.script = <<<<"interval", ToString(n)>>, <<"get", "duration">>>>
    /\ client.sent = 2
    /\ client.seen[1].response = Written("")

\* C11: for every interleaving of ticker cycles with the session, `interval
\* N` followed on a later connection by `get duration` is answered with the
\* decimal text of N, and no ticker cycle changes the stored interval.
\* (Stated as claimed; violated: a ticker cycle between the two that panics
\* on an unreadable directory poisons the mutex, see C10, and the query is
\* not answered.)
C11_IntervalThenGetDuration ==
    /\ [](\A n \in Intervals :
            AskedAfterSet(n) => client.seen[2].response = Written(ToString(n)))
    /\ [][request' = Tick
          => state'.change_interval = state.change_interval]_vars

\* ------------------------------------------------ requests byte for byte

\* A client sends a frame given by its bytes.
HandleBytes == \E f \in WireFrames : Handle(f)

NextWire ==
    \/ TickerCycle /\ UNCHANGED <<client, threads, sh>>
    \/ HandleBytes /\ UNCHANGED <<client, threads, sh>>

\* The daemon with clients whose requests are given byte for byte.
SpecWire == Init /\ [][NextWire]_vars

Wire(n, body, order) ==
    [frame |-> "bytes", order |-> order, prefix |-> to_ne_bytes(n, order), body |-> body]

GetWallpaperBytes == <<"g", "e", "t", " ", "w", "a", "l", "l", "p", "a", "p", "e", "r">>

\* C12 as claimed: the request whose prefix encodes 8 and whose body is the
\* bytes of `get wallpaper` is answered with the current image path.
\* (Violated: 8 bytes of the body are read, `get wall`, which is no command.)
C12_ScenarioAsWritten ==
    [][(\E o \in Orders : request' = Wire(8, GetWallpaperBytes, o)) /\ Runs
       => response' = Written(get_current_image(state))]_vars

\* C12 as amended: a request is decoded by reading the 8-byte native-order
\* length L and then exactly L body bytes as the command line, whatever
\* follows them (`next` is read from a 4 before `next` and a byte that is
\* not UTF-8); a prefix encoding 13 before the bytes of `get wallpaper` is
\* answered with the current image path and leaves State as it was; with a
\* prefix encoding 8 the line read is `get wall`, nothing is answered and
\* the process exits.
C12_FramedGetWallpaper ==
    [][\A o \in Orders :
        /\ \A f \in WireFrames :
             (request' = f /\ f.order = o /\ Runs
                /\ \E n \in Prefixes :
                     /\ f.prefix = to_ne_bytes(n, o)
                     /\ n <= Len(f.body)
                     /\ SubSeq(f.body, 1, n) = GetWallpaperBytes)
             => response' = Written(get_current_image(state)) /\ state' = state
        /\ (request' = Wire(13, GetWallpaperBytes, o) /\ Runs)
             => response' = Written(get_current_image(state))
        /\ (request' = Wire(4, <<"n", "e", "x", "t", BadByte>>, o) /\ Runs)
             => \E d \in dispatch(state, [cmd |-> "Next"]) : state' = d.out.st
        /\ (request' = Wire(8, GetWallpaperBytes, o) /\ daemon = "running")
             => /\ read_from_stream(request').line = <<"get", "wall">>
                /\ response' = NoResponse
                /\ daemon' = "exited"
                /\ state' = state]_vars

\* C12 witness: on a big-endian host, `get wallpaper` framed with a prefix
\* encoding 13 was answered with the current image a.
C12_Witness ==
    /\ request = Wire(13, GetWallpaperBytes, "big")
    /\ response = Written("a")
    /\ get_current_image(state) = "a"

\* -------------------------------------------------- the daemon's threads
\*
\* The same daemon thread by thread: the main thread (the accept loop, whose
\* place is `daemon`), the ticker and the one handler.  A thread's operation
\* on State is three steps: it takes the mutex, it runs the State method,
\* it drops the guard.  The handler's request and response are its locals
\* (handler.frame, handler.text); request and response stay as they start.

\* Largest number of connections waiting to be accepted.
MaxBacklog == 2

\* What the connections carry.
ThreadFrames ==
    {Cmd(l) : l \in {<<"next">>, <<"previous">>, <<"fallback">>, <<"stop">>,
                     <<"interval", "30">>,
                     <<"get", "wallpaper">>, <<"frobnicate">>}}
    \cup {[frame |-> "badutf8", line |-> <<>>]}

InitThreads == Start /\ client = NoClient /\ Whole /\ Launches

\* The process has neither returned from start_daemon nor exited.
Alive == daemon \in {"running", "joining"}

\* Mutant of mutex_free: the mutex is handed out while it is held.
mutex_free_always(l) == TRUE

\* Mutex::lock returns when no thread holds the mutex.
mutex_free(l) == l = "free"

\* Mutant of join_returns: the join does not wait for the handler.
join_returns_at_once(h) == TRUE

\* handle.join() returns when the handler has returned or panicked.
join_returns(h) == h.at \in {"returned", "panicked"}

\* Mutant of after_join: the loop never breaks.
after_join_never_breaks(h) == "running"

\* `if let Ok(res) = handle.join() { if res { break; } }`: where the main
\* thread goes after the join.
after_join(h) == IF h.at = "returned" /\ h.stop THEN "stopped" ELSE "running"

\* A client connects to the socket and writes its request.
Connect ==
    /\ Alive
    /\ backlog < MaxBacklog
    /\ backlog' = backlog + 1
    /\ UNCHANGED <<state, poisoned, lock, ticker, time, daemon, request, response,
                   setter_log, client, sh, handler, section>>

\* incoming.next() and thread::spawn: the oldest waiting connection gets a
\* handler, and the main thread goes to join it.
Accept ==
    /\ daemon = "running"
    /\ backlog > 0
    /\ backlog' = backlog - 1
    /\ daemon' = "joining"
    /\ \E f \in ThreadFrames : handler' = [NoHandler EXCEPT !.at = "start", !.frame = f]
    /\ UNCHANGED <<state, poisoned, lock, ticker, time, request, response,
                   setter_log, client, sh, section>>

\* Mutant of HandlerRead: the handler of a Stop takes the mutex, as the
\* handler of a Get does, before it answers.
HandlerRead_stop_locks ==
    /\ Alive
    /\ handler.at = "start"
    /\   LET r == read_from_stream(handler.frame)
             c == parse_from(r.line)
         IN IF r.panic \/ c.cmd = "Daemon"
            THEN handler' = [handler EXCEPT !.at = "panicked"] /\ UNCHANGED daemon
            ELSE IF c.cmd = "Error"
            THEN daemon' = "exited" /\ UNCHANGED handler
            ELSE IF c.cmd = "Stop"
            THEN handler' = [handler EXCEPT !.at = "lock", !.stop = TRUE,
                                            !.cmd = [cmd |-> "Get", what |-> "fallback"]]
                 /\ UNCHANGED daemon
            ELSE handler' = [handler EXCEPT !.at = "lock", !.cmd = c]
                 /\ UNCHANGED daemon
    /\ UNCHANGED <<state, poisoned, lock, ticker, time, request, response,
                   setter_log, client, sh, backlog, section>>

\* handle_connection up to the match: read, split, parse.
HandlerRead ==
    /\ Alive
    /\ handler.at = "start"
    /\   LET r == read_from_stream(handler.frame)
             c == parse_from(r.line)
         IN IF r.panic \/ c.cmd = "Daemon"
            THEN handler' = [handler EXCEPT !.at = "panicked"] /\ UNCHANGED daemon
            ELSE IF c.cmd = "Error"
            THEN daemon' = "exited" /\ UNCHANGED handler
            ELSE IF c.cmd = "Stop"
            THEN handler' = [handler EXCEPT !.at = "write", !.stop = TRUE]
                 /\ UNCHANGED daemon
            ELSE handler' = [handler EXCEPT !.at = "lock", !.cmd = c]
                 /\ UNCHANGED daemon
    /\ UNCHANGED <<state, poisoned, lock, ticker, time, request, response,
                   setter_log, client, sh, backlog, section>>

\* state.lock().unwrap() in the handler.
HandlerLock ==
    /\ Alive
    /\ handler.at = "lock"
    /\ mutex_free(lock)
    /\ IF poisoned
       THEN /\ handler' = [handler EXCEPT !.at = "panicked"]
            /\ UNCHANGED <<lock, section>>
       ELSE /\ handler' = [handler EXCEPT !.at = "locked"]
            /\ lock' = "handler"
            /\ section' = [section EXCEPT !["handler"] = <<state>>]
    /\ UNCHANGED <<state, poisoned, ticker, time, daemon, request, response,
                   setter_log, client, sh, backlog>>

\* The State method of the command, under the guard.
HandlerApply ==
    /\ Alive
    /\ handler.at = "locked"
    /\ \E d \in {[out |-> launch(x.out, sh), text |-> x.text] :
                      x \in dispatch(state, handler.cmd)} :
          /\ WithinBounds(d.out.st)
          /\ state' = d.out.st
          /\ setter_log' = d.out.setter
          /\ poisoned' = (poisoned \/ d.out.status = "panic")
          /\ handler' = [handler EXCEPT
                            !.at = CASE d.out.status = "ok" -> "applied"
                                     [] d.out.status = "panic" -> "panicked"
                                     [] OTHER -> "hung",
                            !.text = d.text]
          /\ lock' = IF d.out.status = "panic" THEN "free" ELSE lock
          /\ section' = IF d.out.status = "panic"
                        THEN [section EXCEPT !["handler"] = <<>>] ELSE section
    /\ UNCHANGED <<ticker, time, daemon, request, response, client, sh, backlog>>

\* The guard is dropped at the end of the statement.
HandlerFinish ==
    /\ Alive
    /\ handler.at = "applied"
    /\ handler' = [handler EXCEPT !.at = "write"]
    /\ lock' = "free"
    /\ section' = [section EXCEPT !["handler"] = <<>>]
    /\ UNCHANGED <<state, poisoned, ticker, time, daemon, request, response,
                   setter_log, client, sh, backlog>>

\* stream.write_all(response).unwrap(), and the return of stop_server; the
\* write fails when the client has closed the connection.
HandlerWrite ==
    /\ Alive
    /\ handler.at = "write"
    /\ \/ handler' = [handler EXCEPT !.at = "returned"]
       \/ handler' = [handler EXCEPT !.at = "panicked"]
    /\ UNCHANGED <<state, poisoned, lock, ticker, time, daemon, request, response,
                   setter_log, client, sh, backlog, section>>

\* handle.join() returns, and the loop breaks or accepts again; a handler
\* that has ended is no thread any more.
Join ==
    /\ daemon = "joining"
    /\ join_returns(handler)
    /\ daemon' = after_join(handler)
    /\ handler' = IF handler.at \in {"returned", "panicked"} THEN NoHandler ELSE handler
    /\ UNCHANGED <<state, poisoned, lock, ticker, time, request, response,
                   setter_log, client, sh, backlog, section>>

\* sleep(time) is over.
TickerWake ==
    /\ Alive
    /\ ticker = "sleep"
    /\ ticker' = "lock"
    /\ UNCHANGED <<state, poisoned, lock, time, daemon, request, response,
                   setter_log, client, sh, handler, backlog, section>>

\* data.lock().unwrap() in the ticker.
TickerLock ==
    /\ Alive
    /\ ticker = "lock"
    /\ mutex_free(lock)
    /\ IF poisoned
       THEN ticker' = "dead" /\ UNCHANGED <<lock, section>>
       ELSE /\ ticker' = "locked"
            /\ lock' = "ticker"
            /\ section' = [section EXCEPT !["ticker"] = <<state>>]
    /\ UNCHANGED <<state, poisoned, time, daemon, request, response,
                   setter_log, client, sh, handler, backlog>>

\* unlocked.change_image(Next).
TickerApply ==
    /\ Alive
    /\ ticker = "locked"
    /\ \E o \in {launch(x, sh) : x \in change_image(state, "Next")} :
          /\ WithinBounds(o.st)
          /\ state' = o.st
          /\ setter_log' = o.setter
          /\ poisoned' = (poisoned \/ o.status = "panic")
          /\ ticker' = CASE o.status = "ok" -> "applied"
                         [] o.status = "panic" -> "dead"
                         [] OTHER -> "hung"
          /\ lock' = IF o.status = "panic" THEN "free" ELSE lock
          /\ section' = IF o.status = "panic"
                        THEN [section EXCEPT !["ticker"] = <<>>] ELSE section
    /\ UNCHANGED <<time, daemon, request, response, client, sh, handler, backlog>>

\* Mutant of TickerFinish: the ticker never reads the interval again.
TickerFinish_reads_once ==
    /\ Alive
    /\ ticker = "applied"
    /\ ticker' = "sleep"
    /\ lock' = "free"
    /\ section' = [section EXCEPT !["ticker"] = <<>>]
    /\ UNCHANGED <<state, poisoned, time, daemon, request, response, setter_log,
                   client, sh, handler, backlog>>

\* time = unlocked.get_change_interval(), and the guard goes out of scope.
TickerFinish ==
    /\ Alive
    /\ ticker = "applied"
    /\ time' = get_change_interval(state)
    /\ ticker' = "sleep"
    /\ lock' = "free"
    /\ section' = [section EXCEPT !["ticker"] = <<>>]
    /\ UNCHANGED <<state, poisoned, daemon, request, response, setter_log,
                   client, sh, handler, backlog>>

NextThreads ==
    \/ Connect \/ Accept \/ Join
    \/ HandlerRead \/ HandlerLock \/ HandlerApply \/ HandlerFinish \/ HandlerWrite
    \/ TickerWake \/ TickerLock \/ TickerApply \/ TickerFinish

SpecThreads == InitThreads /\ [][NextThreads]_vars

\* The thread is between taking the mutex and dropping the guard.
HandlerInSection == handler.at \in {"locked", "applied", "hung"}

TickerInSection == ticker \in {"locked", "applied", "hung"}

\* C13: the operations of ticker and handlers are applied whole, one at a
\* time, in the order the mutex was taken.  At most one thread is inside an
\* operation; the State an operation starts from is the one its thread found
\* when it took the mutex, that is the one the operation before it left; what
\* it leaves is an outcome of the whole State method on that State; a ticker
\* cycle ends by reading the interval of the State its own change_image
\* left; and State changes in no other step.
C13_WholeOperationsInLockOrder ==
    /\ [](/\ ~(HandlerInSection /\ TickerInSection)
          /\ HandlerInSection <=> lock = "handler"
          /\ TickerInSection <=> lock = "ticker")
    /\ [][/\ (handler.at = "locked" /\ handler'.at # "locked")
               => /\ state = section["handler"][1]
                  /\ \E d \in dispatch(section["handler"][1], handler.cmd) :
                         state' = d.out.st
          /\ (ticker = "locked" /\ ticker' # "locked")
               => /\ state = section["ticker"][1]
                  /\ \E o \in change_image(section["ticker"][1], "Next") :
                         state' = o.st
          /\ (ticker = "applied" /\ ticker' # "applied")
               => \E o \in change_image(section["ticker"][1], "Next") :
                      /\ o.st = state
                      /\ time' = get_change_interval(o.st)
                      /\ state' = state
          /\ state' # state
               => \/ handler.at = "locked" /\ handler'.at # "locked"
                  \/ ticker = "locked" /\ ticker' # "locked"]_vars

\* C13 witness: the ticker waits for the mutex while the handler of a Next
\* holds it and has changed State.
C13_Witness ==
    /\ ticker = "lock"
    /\ handler.at = "applied"
    /\ handler.cmd = [cmd |-> "Next"]
    /\ lock = "handler"
    /\ state # section["handler"][1]

\* The threads under a scheduler that lets the main thread run once the
\* handler it joins has ended.
SpecThreadsFair == SpecThreads /\ WF_vars(Join)

\* The handler of a Stop has written its response and returned true.
StopReturned == handler.at = "returned" /\ handler.stop

\* C14: after a handler processes Stop and returns, the accept loop exits:
\* the main thread does leave the loop.  While the main thread is still in
\* the join it accepts nothing and spawns
\* no handler, and the one step it takes is the break; once it has left the
\* loop no step is taken at all: no connection is accepted or handled and no
\* operation is applied to State.
C14_StopEndsAccepting ==
    /\ [](StopReturned => daemon = "joining")
    /\ [][/\ StopReturned
               => /\ handler' \in {handler, NoHandler}
                  /\ backlog' >= backlog
                  /\ daemon' # daemon => daemon' = "stopped" /\ handler' = NoHandler
          /\ daemon # "stopped"
          /\ daemon' = "stopped" => StopReturned /\ state' = state]_vars
    /\ StopReturned ~> daemon = "stopped"

\* C14 witness: the loop was left while a later connection was waiting and
\* the ticker was about to take the mutex.
C14_Witness ==
    /\ daemon = "stopped"
    /\ backlog = 2
    /\ ticker = "lock"
    /\ handler = NoHandler

\* C15: every changeImage(Next) on a readable, non-empty directory, by the
\* ticker or a client, returns and leaves the mutex free, whatever the
\* history and the capacity.  (Stated as claimed; violated: in Linear mode
\* the loop computes the same index on every iteration, so when the
\* successor of the current image is in the history and the directory has
\* more entries than the capacity, it never ends and the lock is held for
\* ever.)
C15_NextTerminates ==
    [][(NextCall /\ Runs /\ Readable(state.image_dir)
          /\ Len(Listing(state.image_dir)) > 0)
       => Returned]_vars

\* The handler thread exists and has not ended.
Live(h) == h.at \notin {"none", "returned", "panicked"}

\* C16: the accept loop handles connections one at a time.  While the main
\* thread is at accept no handler is live; a connection is accepted (the
\* oldest waiting one, one per step) only after the handler before it has
\* ended and been joined; and a client's command is applied to State only
\* by the handler of the connection accepted last, while the main thread
\* waits in the join.
C16_OneHandlerAtATime ==
    /\ [](daemon = "running" => ~Live(handler))
    /\ [][/\ backlog' < backlog
               => /\ handler = NoHandler
                  /\ handler'.at = "start"
                  /\ backlog' = backlog - 1
                  /\ daemon = "running" /\ daemon' = "joining"
          /\ (handler.at = "locked" /\ handler'.at # "locked")
               => daemon = "joining" /\ daemon' = "joining"]_vars

\* C16 witness: two connections wait while the handler of an earlier one is
\* inside its operation.
C16_Witness ==
    /\ backlog = 2
    /\ handler.at = "applied"
    /\ handler.cmd = [cmd |-> "Previous"]
    /\ daemon = "joining"

\* The walk of the scenario.
Walk == <<<<"next">>, <<"next">>, <<"previous">>, <<"next">>>>

\* The scenario: directory [a, b, c], capacity 2, Linear, the walk started
\* at image a and no ticker cycle has run since.
WalkFromA ==
    /\ client.script = Walk
    /\ client.from = "a"
    /\ ~client.ticked
    /\ state.image_dir = "A"
    /\ state.history_max_size = 2
    /\ state.action = "Linear"

\* The images the setter was given after each command of the session.
Shown == [i \in 1..Len(client.seen) |->
             IF client.seen[i].setter = <<>> THEN "" ELSE client.seen[i].setter[1].image]

\* C17: a Next that finds the redo stack non-empty pops its top and appends
\* it to previous, shows it and returns, whatever the directory (readable or
\* not); a Next that finds it empty and returns has appended an entry of the
\* directory and left next empty.  In the scenario the walk Next, Next,
\* Previous, Next shows b, c, b, c, and the last Next finds c on the redo
\* stack and takes it from there.
C17_NextRedoesBeforeItPicks ==
    /\ [][/\ (NextCall /\ Runs /\ ~state.use_fallback /\ state.action # "Static"
                /\ has_next(state))
               => /\ Returned
                  /\ state'.next = pop_back(state.next)
                  /\ state'.previous = push_back(state, back(state.next)).previous
                  /\ setter_log'[1] = [cmd |-> "change", image |-> back(state.next)]
          /\ (NextCall /\ Runs /\ ~state.use_fallback /\ state.action # "Static"
                /\ ~has_next(state) /\ Returned)
               => /\ state'.next = <<>>
                  /\ \E i \in 1..Len(Listing(state.image_dir)) :
                         state'.previous =
                             push_back(state, Listing(state.image_dir)[i]).previous
          /\ (WalkFromA /\ client.sent = 3 /\ client'.sent = 4)
               => /\ state.next = <<"c">>
                  /\ state'.next = <<>>]_vars
    /\ []((WalkFromA /\ client.sent = 4) => Shown = <<"b", "c", "b", "c">>)

\* C17 witness: the walk of the scenario has been made from image a.
C17_Witness ==
    /\ WalkFromA
    /\ client.sent = 4
    /\ state.previous = <<"b", "c">>
    /\ state.next = <<>>

\* The entry the claim names: at index (i + 1) mod count, counting from 0,
\* where i is the index of the current image in the listing, or 0 when the
\* listing does not hold it.
LinearSuccessor(s) ==
    LET listing == Listing(s.image_dir)
        count   == Len(listing)
        here    == {k \in 0..(count - 1) : listing[k + 1] = get_current_image(s)}
        i       == IF here = {} THEN 0 ELSE CHOOSE k \in here : TRUE
    IN listing[((i + 1) % count) + 1]

\* This step is a fresh pick in Linear mode on a readable, non-empty
\* directory.
LinearPick ==
    /\ NextCall /\ Runs
    /\ state.action = "Linear" /\ ~state.use_fallback /\ ~has_next(state)
    /\ Readable(state.image_dir) /\ Len(Listing(state.image_dir)) > 0

\* C18: a fresh pick in Linear mode selects the entry at index (i + 1) mod
\* count, i being the index of the current image in the listing, or 0 when
\* it is not there: that entry is the one appended and shown, and no other
\* entry is ever appended (when that entry is not acceptable the call does
\* not return and State stays as it was).
C18_LinearPicksSuccessor ==
    [][LinearPick
       => \/ /\ Returned
             /\ get_current_image(state') = LinearSuccessor(state)
             /\ state'.previous = push_back(state, LinearSuccessor(state)).previous
             /\ setter_log'[1] = [cmd |-> "change", image |-> LinearSuccessor(state)]
          \/ /\ lock' # "free"
             /\ state' = state
             /\ contains(state, LinearSuccessor(state))]_vars

\* C18 witness: from the last entry c of [a, b, c] a client's Next wrapped
\* round to a.
C18_Witness ==
    /\ request = Cmd(<<"next">>)
    /\ state.action = "Linear"
    /\ state.image_dir = "A"
    /\ state.previous = <<"c", "a">>
    /\ state.next = <<>>
    /\ setter_log = <<[cmd |-> "change", image |-> "a"]>>

\* C19: changeImage hands nothing to the setter on a branch that leaves the
\* shown image as it is: a Previous with no previous image, and a Next or
\* Previous suppressed by fallback or by Static mode.  (Stated as claimed;
\* violated: update() is called after the match on every path that is not
\* suppressed, so a Previous with no previous image runs the setter again
\* on the current image.)
C19_SetterOnlyOnChange ==
    [][/\ (PreviousCall /\ Runs /\ ~has_previous(state)) => setter_log' = <<>>
       /\ ((NextCall \/ PreviousCall) /\ Runs
             /\ (state.use_fallback \/ state.action = "Static"))
            => setter_log' = <<>>]_vars

\* ------------------------------------------------ a setter that can fail

\* The commands sent while the setter is watched.
SetterFrames ==
    {Cmd(l) : l \in {<<"next">>, <<"previous">>, <<"fallback">>,
                     <<"mode", "static", "b">>, <<"mode", "random">>,
                     <<"get", "wallpaper">>}}

InitSetter == Start /\ client = NoClient /\ Whole /\ sh \in ShOutcomes

\* Whether the shell can be spawned, and how the setter exits, changes from
\* one operation to the next.
SetterTick ==
    /\ TickerCycle
    /\ sh' \in ShOutcomes
    /\ UNCHANGED <<client, threads>>

SetterHandle ==
    /\ \E f \in SetterFrames : Handle(f)
    /\ sh' \in ShOutcomes
    /\ UNCHANGED <<client, threads>>

NextSetter == SetterTick \/ SetterHandle

\* The daemon with a setter that can fail.
SpecSetter == InitSetter /\ [][NextSetter]_vars

\* The ways the operation of request req can end on State s when the shell
\* runs and the setter succeeds.
Unfailing(s, req) ==
    IF req = Tick
    THEN change_image(s, "Next")
    ELSE {d.out : d \in dispatch(s, parse_from(read_from_stream(req).line))}

\* C20: a setter that fails (the shell exits non-zero, or cannot be
\* launched) changes nothing in how the operation ends: State is advanced as
\* with a setter that succeeds, the operation returns and frees the mutex,
\* the mutex is usable by later ticker cycles and commands, and nothing was
\* run a second time.  (Stated as claimed; violated: output().unwrap()
\* panics when the shell cannot be launched, under the lock, and the mutex
\* is poisoned.)
C20_SetterFailureNotPropagated ==
    [][(sh # "exit0" /\ Runs)
       => \E o \in Unfailing(state, request') :
              /\ state' = o.st
              /\ poisoned' = (o.status = "panic")
              /\ (lock' = "free") = (o.status # "hang")
              /\ setter_log' = o.setter]_vars

\* ------------------------------------------------- the ticker's interval

\* C21: an interval set while the ticker sleeps does not alter the sleep in
\* progress, and the ticker never advances before having slept once.  The
\* ticker starts asleep; its duration `time` changes in one step only, the
\* one that ends a cycle and starts the next sleep, which reads the interval
\* of State while the ticker still holds the mutex it took for its
\* change_image(Next); every sleep that starts after a change_image lasts the
\* interval State holds then; the ticker takes the mutex only after a sleep
\* has ended, and an Interval command moves neither the ticker nor `time`.
C21_IntervalTakesEffectAfterNextTick ==
    /\ ticker = "sleep"
    /\ [][/\ time' # time => ticker = "applied" /\ ticker' = "sleep"
          /\ (ticker = "applied" /\ ticker' # "applied")
               => /\ lock = "ticker"
                  /\ ticker' = "sleep"
                  /\ time' = state.change_interval
                  /\ state' = state
          /\ (ticker' = "sleep" /\ ticker # "sleep") => ticker = "applied"
          /\ (ticker' = "lock" /\ ticker # "lock") => ticker = "sleep"
          /\ (ticker' = "locked" /\ ticker # "locked") => ticker = "lock"
          /\ (ticker' = "applied" /\ ticker # "applied") => ticker = "locked"
          /\ state'.change_interval # state.change_interval
               => /\ handler.at = "locked" /\ handler.cmd.cmd = "Interval"
                  /\ ticker' = ticker
                  /\ time' = time]_vars

\* C21 witness: the handler of an Interval command holds the mutex and has
\* set an interval other than the one the ticker is sleeping; the ticker
\* has been asleep since before the handler took the mutex.
C21_Witness ==
    /\ ticker = "sleep"
    /\ handler.at = "applied"
    /\ handler.cmd.cmd = "Interval"
    /\ lock = "handler"
    /\ time = 60
    /\ state.change_interval = 30

\* ------------------------------------------------ the post-change command

\* The post-change offsets a configuration can give; -1 stands for None.
Offsets == {-1, 0, 1, 2}

\* The commands sent while the post-change command is watched.
PostFrames ==
    {Cmd(l) : l \in {<<"next">>, <<"previous">>, <<"fallback">>,
                     <<"mode", "static", "b">>, <<"mode", "random">>}}

\* WallpaperCommands::new: the post-change command and its offset are each
\* given by the arguments or the configuration file, or by neither.
WallpaperCommands_new(s, post_cmd, post_offset) ==
    [s EXCEPT !.post_cmd = post_cmd, !.post_offset = post_offset]

\* start_daemon up to the accept loop, for every configuration of the
\* post-change command.
InitPost ==
    /\ \E dir \in {"A", "B"}, a \in Modes, n \in 0..MaxCap,
          p \in BOOLEAN, k \in Offsets :
           state = WallpaperCommands_new(new(30, dir, a, n), p, k)
    /\ poisoned = FALSE
    /\ lock = "free"
    /\ ticker = "sleep"
    /\ time = get_change_interval(state)
    /\ daemon = "running"
    /\ request = Boot
    /\ response = NoResponse
    /\ setter_log = <<>>
    /\ client = NoClient
    /\ Whole
    /\ Launches

PostTick == TickerCycle /\ UNCHANGED <<client, threads, sh>>

PostHandle == (\E f \in PostFrames : Handle(f)) /\ UNCHANGED <<client, threads, sh>>

NextPost == PostTick \/ PostHandle

\* The daemon with a post-change command.
SpecPost == InitPost /\ [][NextPost]_vars

\* Both the post-change command and its offset are configured.
PostConfigured(s) == s.post_cmd /\ s.post_offset >= 0

\* The operation of this step has run update() to its end.
Applied == Runs /\ setter_log' # <<>>

ChangeCall(s) == [cmd |-> "change", image |-> back(s.previous)]

\* C22 as claimed: with a post-change command and an offset k, every update
\* runs the post-change command after the change command with the image k
\* steps back from the end of previous not counting the image just applied,
\* and does not run it when there is no such entry.  (Violated: the count
\* starts at the image just applied.)
C22_OffsetSkipsApplied ==
    [][Applied =>
         LET n == Len(state'.previous)
             k == state'.post_offset
         IN IF PostConfigured(state') /\ k + 1 < n
            THEN setter_log' = <<ChangeCall(state'),
                                 [cmd |-> "post", image |-> state'.previous[n - 1 - k]]>>
            ELSE setter_log' = <<ChangeCall(state')>>]_vars

\* C22: with a post-change command and an offset k, every update runs the
\* change command with the current image and then the post-change command
\* with the image k steps back from the end of previous, the image just
\* applied being step 0; it does not run the post-change command when
\* previous has k entries or fewer, or when command or offset is missing.
C22_OffsetCountsFromApplied ==
    [][Applied =>
         LET n == Len(state'.previous)
             k == state'.post_offset
         IN IF PostConfigured(state') /\ k < n
            THEN setter_log' = <<ChangeCall(state'),
                                 [cmd |-> "post", image |-> state'.previous[n - k]]>>
            ELSE setter_log' = <<ChangeCall(state')>>]_vars

\* C22 witness: with offset 1 the post-change command got the image before
\* the one just applied.
C22_Witness ==
    /\ PostConfigured(state)
    /\ state.post_offset = 1
    /\ Len(state.previous) = 2
    /\ state.previous[1] # state.previous[2]
    /\ setter_log = <<ChangeCall(state), [cmd |-> "post", image |-> state.previous[1]]>>

\* ------------------------------------------------- appends and the redo stack

\* The paths an image can have.
Images ==
    {DefaultImage} \cup StaticPaths
    \cup UNION {{Listing(d)[i] : i \in 1..Len(Listing(d))} : d \in Dirs}

\* C23: an append that is not a redo leaves History.next as it is: push_back
\* on any reachable State, and the three operations that append through it
\* (a Next that picks afresh, a Mode command with an image, entering
\* fallback); the entries a Previous left on next are therefore still there
\* for the next Next that is not suppressed, which shows the top one and
\* takes it off.
C23_AppendKeepsRedo ==
    /\ [](\A p \in Images : push_back(state, p).next = state.next)
    /\ [][/\ (Runs /\ request' = Cmd(<<"mode", "static", "b">>))
               => state'.next = state.next /\ back(state'.previous) = "b"
          /\ (Runs /\ request' = Cmd(<<"fallback">>) /\ ~state.use_fallback)
               => state'.next = state.next /\ state'.use_fallback
          /\ (Runs /\ NextCall /\ ~has_next(state)) => state'.next = state.next
          /\ (Runs /\ NextCall /\ has_next(state)
                 /\ ~state.use_fallback /\ state.action # "Static")
               => /\ back(state'.previous) = back(state.next)
                  /\ state'.next = pop_back(state.next)]_vars

\* C23 witness: a Mode command with an image was applied while an image
\* undone by Previous waited on next, and that image is still there.
C23_Witness ==
    /\ request = Cmd(<<"mode", "static", "b">>)
    /\ state.previous # <<>>
    /\ back(state.previous) = "b"
    /\ state.action = "Static"
    /\ state.next # <<>>
    /\ ~poisoned

\* ------------------------------------------------------ commands in fallback

\* C24: in every reachable state, fallback on implies mode Static, whatever
\* Mode commands were sent while fallback was on.  (Stated as claimed;
\* violated: update_action assigns the mode without looking at the
\* fallback flag.)
C24_FallbackImpliesStatic == state.use_fallback => state.action = "Static"

\* C25: in every reachable state with fallback on the current image is the
\* default image, and leaving fallback removes from previous the entry that
\* entering fallback appended: the back of previous is then the default
\* image and previous loses exactly that entry.  (Stated as claimed;
\* violated: `mode static <path>` appends its image while fallback is on.)
C25_FallbackShowsDefault ==
    /\ [](state.use_fallback => get_current_image(state) = DefaultImage)
    /\ [][(request' = Cmd(<<"fallback">>) /\ Runs /\ state.use_fallback)
           => /\ get_current_image(state) = DefaultImage
              /\ state'.previous = pop_back(state.previous)]_vars

\* C26: from a state with fallback off, toggling fallback on and at once
\* off again gives back the whole History, previous and next, also when
\* previous was at capacity.  (Stated as claimed; violated: entering
\* fallback at capacity evicts the oldest entry, which leaving does not
\* bring back.)
C26_FallbackRestoresHistory ==
    [][(request' = Cmd(<<"fallback">>) /\ Runs /\ ~state.use_fallback)
       => LET off == save(state')
          IN /\ off.st.previous = state.previous
             /\ off.st.next = state.next]_vars

\* ------------------------------------------------- Stop and the state lock

\* What the connections carry while Stop is watched: with a Random start,
\* `mode linear` leads to a change_image that never returns.
StopFrames == {Cmd(l) : l \in {<<"stop">>, <<"next">>, <<"mode", "linear">>}}

\* incoming.next() and thread::spawn, as Accept, for these connections.
AcceptStop ==
    /\ daemon = "running"
    /\ backlog > 0
    /\ backlog' = backlog - 1
    /\ daemon' = "joining"
    /\ \E f \in StopFrames : handler' = [NoHandler EXCEPT !.at = "start", !.frame = f]
    /\ UNCHANGED <<state, poisoned, lock, ticker, time, request, response,
                   setter_log, client, sh, section>>

NextStop ==
    \/ Connect \/ AcceptStop \/ Join
    \/ HandlerRead \/ HandlerLock \/ HandlerApply \/ HandlerFinish \/ HandlerWrite
    \/ TickerWake \/ TickerLock \/ TickerApply \/ TickerFinish

SpecStop == InitThreads /\ [][NextStop]_vars

\* The threads under a scheduler that lets a thread run when it is not
\* waiting for the mutex or for a join: the handler reads and writes, the
\* main thread returns from the join.
SpecStopFair ==
    SpecStop /\ WF_vars(HandlerRead) /\ WF_vars(HandlerWrite) /\ WF_vars(Join)

\* A handler has been spawned for a connection that carries Stop.
StopSpawned == handler.at = "start" /\ handler.frame = Cmd(<<"stop">>)

\* C27: the handler of a Stop never takes the state mutex, so a Stop is
\* answered and the accept loop is left whoever holds the mutex, also a
\* ticker whose change_image never returns.  The handler of a Stop is never
\* waiting for the mutex nor holding it; each of its steps leaves the mutex
\* as it is and is taken whether the mutex is free or not; the loop is left
\* only after such a handler has returned; and once a handler has been
\* spawned for a Stop, the loop is left, unless the write of the response
\* fails because the client has gone.
C27_StopTakesNoLock ==
    /\ [](handler.stop => handler.at \in {"write", "returned", "panicked"}
                          /\ lock # "handler")
    /\ [][/\ (StopSpawned /\ handler' # handler)
               => handler'.at = "write" /\ handler'.stop /\ lock' = lock
          /\ (handler.stop /\ handler.at = "write" /\ handler' # handler)
               => handler'.at \in {"returned", "panicked"} /\ lock' = lock
          /\ (daemon' = "stopped" /\ daemon # "stopped") => StopReturned]_vars
    /\ StopSpawned ~> (daemon = "stopped" \/ handler.at = "panicked")

\* C27 witness: the accept loop has been left while the ticker holds the
\* mutex in a change_image that never returns.
C27_Witness ==
    /\ daemon = "stopped"
    /\ ticker = "hung"
    /\ lock = "ticker"

====
